---- MODULE Spec2Model ----
(***************************************************************************)
(* Grid-table layout of docutils-rst-writer: Table.treeify (the span       *)
(* resolver) and Table.render (the grid renderer) of                       *)
(* src/docutils_rst_writer/table.py, as a state machine that runs one      *)
(* render() call, statement block by statement block, on a Table drawn     *)
(* from a bounded set.                                                     *)
(*                                                                         *)
(* Conventions.  Python lists are TLA+ sequences; a Python index i is the  *)
(* sequence index i + 1.  Rows, columns and line numbers keep the code's   *)
(* zero-based values.  A str is a sequence of one-character strings.  A    *)
(* dict is a function whose DOMAIN is its key set.                         *)
(***************************************************************************)
EXTENDS Integers, Sequences, FiniteSets, TLC

\* ------------------------------------------------------------------ bounds
MaxRows == 3
MaxCols == 3
MaxCells == 4
MaxRaggedRows == 2
MaxRowCells == 2
MaxSpan == 1

\* ----------------------------------------------------------------- helpers
\* Mutant of Max2: the new value replaces the old one.
Max2_Last(a, b) == b

\* max(a, b)
Max2(a, b) == IF a >= b THEN a ELSE b

SetMax(S) == CHOOSE x \in S : \A y \in S : y <= x

\* s[i] of a Python list.
At(s, i) == s[i + 1]

\* sum(s[a:b]), with the clamping of a Python slice (0 <= a).
RECURSIVE SumSlice(_, _, _)
SumSlice(s, a, b) ==
    IF a >= b \/ a >= Len(s) THEN 0 ELSE At(s, a) + SumSlice(s, a + 1, b)

\* n copies of x.
Repeat(x, n) == [i \in 1..n |-> x]

Reverse(s) == [i \in 1..Len(s) |-> s[Len(s) + 1 - i]]

\* Optional[int]: None.
None == -1

\* Mutant of DictGet: every read gives the default.
DictGet_Default(d, k) == 0

\* defaultdict(lambda: 0): a read of a missing key gives 0.
DictGet(d, k) == IF k \in DOMAIN d THEN d[k] ELSE 0

DictSet(d, k, v) == [x \in (DOMAIN d) \cup {k} |-> IF x = k THEN v ELSE d[x]]

\* ------------------------------------------------------------- CellContent
content_width(cell) ==
    IF cell.lines # <<>>
    THEN SetMax({Len(cell.lines[i]) : i \in DOMAIN cell.lines})
    ELSE 0

content_height(cell) == Len(cell.lines)

\* Mutant of CellContent: the header flag is dropped.
CellContent_NoHeader(lines, header, morecols, morerows) ==
    [lines |-> lines, header |-> FALSE, morecols |-> morecols, morerows |-> morerows]

CellContent(lines, header, morecols, morerows) ==
    [lines |-> lines, header |-> header, morecols |-> morecols, morerows |-> morerows]

\* A TreeCell refers to the CellContent object it was created for: `content`
\* is <<r, k>>, the place self.rows[r][k] of that object.
TreeCell(content, row, column) ==
    [content |-> content, row |-> row, column |-> column, children |-> <<>>]

TreeTable(header_row, row_heights, column_widths, top_row) ==
    [header_row |-> header_row, row_heights |-> row_heights,
     column_widths |-> column_widths, top_row |-> top_row]


\* ------------------------------------------------------------ input tables
\* The cell texts the tables are filled with: no line at all, one line, and
\* three lines of different lengths; the one-line cell is a header cell.
SampleCells ==
    { [lines |-> <<>>, header |-> FALSE],
      [lines |-> << <<"a">> >>, header |-> TRUE],
      [lines |-> << <<"a", "b">>, <<"c">>, <<"a", "b", "c", "d">> >>, header |-> FALSE] }

\* The declared widths: every column is declared with the same width.
DeclaredWidths == {0, 2}

Footprint(row, column, morecols, morerows) ==
    (row .. row + morerows) \X (column .. column + morecols)

\* Every way of completing `rows` into a table of R rows and C columns whose
\* cells tile the grid: the positions are filled in row-major order, each free
\* position by the top-left corner of a new cell.
RECURSIVE Fill(_, _, _, _, _, _)
Fill(R, C, pos, occ, rows, n) ==
    IF pos >= R * C THEN {rows}
    ELSE LET r == pos \div C
             c == pos % C
         IN  IF <<r, c>> \in occ THEN Fill(R, C, pos + 1, occ, rows, n)
             ELSE IF n >= MaxCells THEN {}
             ELSE UNION { Fill(R, C, pos + 1,
                               occ \cup Footprint(r, c, sp[2], sp[1]),
                               [rows EXCEPT ![r + 1] =
                                   Append(@, CellContent(s.lines, s.header, sp[2], sp[1]))],
                               n + 1) :
                          <<sp, s>> \in
                            { x \in ((0 .. R - 1 - r) \X (0 .. C - 1 - c)) \X SampleCells :
                                Footprint(r, c, x[1][2], x[1][1]) \cap occ = {} } }

\* A Table as constructed by the caller; in_header is False again once the
\* caller has left the header.
Table(column_widths, rows) ==
    [column_widths |-> column_widths, in_header |-> FALSE, rows |-> rows]

GridTables ==
    UNION { { Table(Repeat(w, C), rows) :
                rows \in Fill(R, C, 0, {}, Repeat(<<>>, R), 0), w \in DeclaredWidths } :
            <<R, C>> \in (1 .. MaxRows) \X (1 .. MaxCols) }

\* A Table without rows, whatever widths were declared.
EmptyTables == { Table(Repeat(w, C), <<>>) : w \in DeclaredWidths, C \in 0 .. MaxCols }

Tables == GridTables \cup EmptyTables

\* Tables a caller can construct without keeping the contract: rows of any
\* length, cells with any non-negative spans, and any number of declared
\* widths.
RaggedCells ==
    { CellContent(s.lines, s.header, mc, mr) :
        s \in {x \in SampleCells : Len(x.lines) <= 1}, mc \in 0 .. MaxSpan, mr \in 0 .. MaxSpan }

SeqsUpTo(S, n) == UNION { [1 .. k -> S] : k \in 0 .. n }

RaggedTables ==
    { Table(Repeat(w, C), rows) :
        w \in DeclaredWidths, C \in 0 .. MaxCols,
        rows \in UNION { [1 .. R -> SeqsUpTo(RaggedCells, MaxRowCells)] :
                            R \in 1 .. MaxRaggedRows } }

\* ------------------------------------------------------------------- state
VARIABLES
    table,              \* self: the Table render() is called on
    pc,                 \* the statement block about to run
    err,                \* the exception that ended the call ("" if none)
    cells,              \* every TreeCell created so far; a TreeCell is named by its index
    top_row,            \* treeify: top_row
    stack,              \* treeify: stack
    next_first,         \* treeify: Python index of the next cell of `for cell in self.rows[0]`
    in_column_indexes,  \* treeify: in_column_indexes
    in_columns,         \* treeify: in_columns
    header_row,         \* treeify: header_row
    row_heights,        \* treeify: row_heights (dict)
    column_widths,      \* treeify: column_widths (dict)
    rowspans,           \* treeify: rowspans
    colspans,           \* treeify: colspans
    row_heights_list,   \* treeify: row_heights_list
    column_widths_list, \* treeify: column_widths_list
    next_span,          \* treeify: how many cells of rowspans + colspans are expanded
    tree,               \* render: tree, the TreeTable treeify returned
    lines,              \* render: lines
    rstack,             \* render: stack
    idx,                \* render: idx, which outlives the loop that binds it
    out,                \* render: the returned list of strings
    captures,           \* RstTranslator: self.captures (<<>> where no translator is at work)
    document            \* the docutils traversal: the open nodes, and what was visited

vars == <<table, pc, err, cells, top_row, stack, next_first, in_column_indexes,
          in_columns, header_row, row_heights, column_widths, rowspans, colspans,
          row_heights_list, column_widths_list, next_span, tree, lines, rstack,
          idx, out, captures, document>>

walkVars == <<cells, top_row, stack, next_first, in_column_indexes, in_columns,
              header_row, row_heights, column_widths, rowspans, colspans>>

listVars == <<row_heights_list, column_widths_list, next_span>>

renderVars == <<lines, rstack, idx, out>>

writerVars == <<captures, document>>

\* render's `tree` before treeify has returned.
NoTree == TreeTable(None, <<>>, <<>>, <<>>)

\* idx before `for idx in range(height)` has bound it.
Unbound == -1

\* The locals of render() and treeify() when render() is entered.
Fresh ==
    /\ pc = "start"
    /\ err = ""
    /\ cells = <<>>
    /\ top_row = <<>>
    /\ stack = <<>>
    /\ next_first = 0
    /\ in_column_indexes = <<>>
    /\ in_columns = <<>>
    /\ header_row = None
    /\ row_heights = <<>>
    /\ column_widths = <<>>
    /\ rowspans = <<>>
    /\ colspans = <<>>
    /\ row_heights_list = <<>>
    /\ column_widths_list = <<>>
    /\ next_span = 0
    /\ tree = NoTree
    /\ lines = <<>>
    /\ rstack = <<>>
    /\ idx = Unbound

\* Before the first call nothing has been returned yet.
Locals0 ==
    /\ Fresh
    /\ out = <<>>

\* No document is being translated: render() is called directly.
NoWriter ==
    /\ captures = <<>>
    /\ document = [path |-> <<>>, tables |-> 0, entries |-> 0]

\* render() is called on a table that keeps the contract.
Init ==
    /\ table \in Tables
    /\ Locals0
    /\ NoWriter

\* render() is called on any table a caller can construct.
InitRagged ==
    /\ table \in RaggedTables
    /\ Locals0
    /\ NoWriter

\* An exception leaves the call where it is raised (pc stays): nothing more
\* runs and nothing is returned.
Raise(name) ==
    /\ err' = name
    /\ UNCHANGED <<writerVars, table, pc, walkVars, listVars, tree, renderVars>>

\* ----------------------------------------------------------------- treeify
\* Mutant of EmptyTreeTable: the declared widths are handed back.
EmptyTreeTable_Declared == TreeTable(None, <<>>, table.column_widths, <<>>)

\* TreeTable(), what treeify returns for a table without rows.
EmptyTreeTable == TreeTable(None, <<>>, <<>>, <<>>)

\* Mutant of DeclaredDict: the declared widths are not entered.
DeclaredDict_Empty == <<>>

\* column_widths after `for idx, width in enumerate(self.column_widths)`.
DeclaredDict ==
    [i \in 0 .. Len(table.column_widths) - 1 |-> At(table.column_widths, i)]

\* render() calls treeify(): the early return for a table without rows, else
\* the set-up of the walk.
TreeifyStart ==
    /\ pc = "start"
    /\ err = ""
    /\ IF table.rows = <<>>
       THEN /\ tree' = EmptyTreeTable
            /\ pc' = "treeified"
            /\ UNCHANGED <<writerVars, table, err, walkVars, listVars, renderVars>>
       ELSE /\ column_widths' = DeclaredDict
            /\ in_column_indexes' = Repeat(0, Len(table.rows))
            /\ in_columns' = Repeat(0, Len(table.rows))
            /\ pc' = "walk"
            /\ UNCHANGED <<writerVars, table, err, cells, top_row, stack, next_first, header_row,
                           row_heights, rowspans, colspans, listVars, tree, renderVars>>

\* Mutant of FirstColumn: the cell's place in its sparse row.
FirstColumn_Index == next_first

\* column=in_columns[0] of a root.
FirstColumn == At(in_columns, 0)

\* for cell in self.rows[0]: the next root is created and pushed.
WalkFirst ==
    /\ pc = "walk"
    /\ err = ""
    /\ stack = <<>>
    /\ next_first < Len(At(table.rows, 0))
    /\ cells' = Append(cells, TreeCell(<<0, next_first>>, 0, FirstColumn))
    /\ top_row' = Append(top_row, Len(cells) + 1)
    /\ stack' = <<Len(cells) + 1>>
    /\ next_first' = next_first + 1
    /\ UNCHANGED <<writerVars, table, pc, err, in_column_indexes, in_columns, header_row, row_heights,
                   column_widths, rowspans, colspans, listVars, tree, renderVars>>

\* current.content: the CellContent a TreeCell refers to.
Content(current) == At(At(table.rows, current.content[1]), current.content[2])

\* Mutant of end_column_of: the cell's own column is not counted.
end_column_of_NoOwnColumn(current) == current.column + Content(current).morecols

end_column_of(current) == current.column + Content(current).morecols + 1

end_row_of(current) == current.row + Content(current).morerows + 1

\* Mutant of StillChildren: the row below is pulled from up to and including
\* the cell's right edge.
StillChildren_Inclusive(current) ==
    /\ end_row_of(current) < Len(in_columns)
    /\ At(in_columns, end_row_of(current)) <= end_column_of(current)

\* Mutant of StillChildren: no cell has children to visit.
StillChildren_Never(current) == FALSE

\* The test of the walk: the row below the cell is not yet filled up to the
\* cell's right edge.
StillChildren(current) ==
    /\ end_row_of(current) < Len(in_columns)
    /\ At(in_columns, end_row_of(current)) < end_column_of(current)

\* One turn of `while stack` that finds a child to visit.
WalkChild ==
    /\ pc = "walk"
    /\ err = ""
    /\ stack # <<>>
    /\ LET top == stack[Len(stack)]
           current == cells[top]
           end_row == end_row_of(current)
           in_col_off == At(in_column_indexes, end_row)
       IN  /\ StillChildren(current)
           /\ IF in_col_off >= Len(At(table.rows, end_row))
              THEN Raise("IndexError")
              ELSE /\ cells' = Append([cells EXCEPT ![top].children = Append(@, Len(cells) + 1)],
                                      TreeCell(<<end_row, in_col_off>>,
                                               end_row, At(in_columns, end_row)))
                   /\ stack' = Append(stack, Len(cells) + 1)
                   /\ UNCHANGED <<writerVars, table, pc, err, top_row, next_first, in_column_indexes,
                                  in_columns, header_row, row_heights, column_widths,
                                  rowspans, colspans, listVars, tree, renderVars>>

\* Mutant of PopRows: only the cell's own row is marked as filled.
PopRows_OwnRow(current) == {current.row}

\* The rows range(current.row, end_row) marks as filled.
PopRows(current) == current.row .. end_row_of(current) - 1

\* Mutant of NextHeaderRow: the row of the header cell popped last.
NextHeaderRow_Last(current) ==
    IF Content(current).header THEN current.row ELSE header_row

\* header_row after the pop of current.
NextHeaderRow(current) ==
    IF Content(current).header /\ (header_row = None \/ current.row > header_row)
    THEN current.row ELSE header_row

\* One turn of `while stack` that finds no more children: the cell is popped
\* and folded into the sizes.
WalkPop ==
    /\ pc = "walk"
    /\ err = ""
    /\ stack # <<>>
    /\ LET top == stack[Len(stack)]
           current == cells[top]
           end_column == end_column_of(current)
       IN  /\ ~StillChildren(current)
           /\ IF \E r \in PopRows(current) : r >= Len(in_columns)
              THEN IF \E r \in PopRows(current) :
                        r < Len(in_columns) /\ At(in_columns, r) > end_column
                   THEN Raise("AssertionError")
                   ELSE Raise("IndexError")
              ELSE IF \E r \in PopRows(current) : At(in_columns, r) > end_column
              THEN Raise("AssertionError")
              ELSE /\ stack' = SubSeq(stack, 1, Len(stack) - 1)
                   /\ in_column_indexes' =
                          [in_column_indexes EXCEPT ![current.row + 1] = @ + 1]
                   /\ in_columns' = [i \in 1 .. Len(in_columns) |->
                                        IF (i - 1) \in PopRows(current)
                                        THEN end_column ELSE in_columns[i]]
                   /\ header_row' = NextHeaderRow(current)
                   /\ IF Content(current).morecols = 0
                      THEN /\ column_widths' =
                                  DictSet(column_widths, current.column,
                                          Max2(DictGet(column_widths, current.column),
                                               content_width(Content(current))))
                           /\ colspans' = colspans
                      ELSE /\ colspans' = Append(colspans, top)
                           /\ column_widths' = column_widths
                   /\ IF Content(current).morerows = 0
                      THEN /\ row_heights' =
                                  DictSet(row_heights, current.row,
                                          Max2(DictGet(row_heights, current.row),
                                               content_height(Content(current))))
                           /\ rowspans' = rowspans
                      ELSE /\ rowspans' = Append(rowspans, top)
                           /\ row_heights' = row_heights
                   /\ UNCHANGED <<writerVars, table, pc, err, cells, top_row, next_first, listVars,
                                  tree, renderVars>>

\* [d[0], ..., d[max key]] of a defaultdict d with at least one key.
DictToList(d) == [i \in 1 .. 1 + SetMax(DOMAIN d) |-> DictGet(d, i - 1)]

\* The walk is over: "Convert from dicts to lists".  max() of no key at all
\* raises ValueError.
Convert ==
    /\ pc = "walk"
    /\ err = ""
    /\ stack = <<>>
    /\ next_first >= Len(At(table.rows, 0))
    /\ IF DOMAIN row_heights = {} \/ DOMAIN column_widths = {}
       THEN Raise("ValueError")
       ELSE /\ row_heights_list' = DictToList(row_heights)
            /\ column_widths_list' = DictToList(column_widths)
            /\ pc' = "expand"
            /\ UNCHANGED <<writerVars, table, err, walkVars, next_span, tree, renderVars>>

\* len(s[a:b]) of a Python slice (0 <= a).
SliceLen(s, a, b) == Cardinality({i \in a .. b - 1 : i < Len(s)})

\* Mutant of Cumulative: the dividers between the covered rows or columns are
\* not counted.
Cumulative_NoDividers(sizes, origin, end) ==
    At(sizes, origin) + SumSlice(sizes, origin + 1, end)

\* cumulative_height / cumulative_width: the origin's size, then every size of
\* sizes[origin + 1 : end], each with one more for its divider.
Cumulative(sizes, origin, end) ==
    At(sizes, origin) + SumSlice(sizes, origin + 1, end) + SliceLen(sizes, origin + 1, end)

\* Mutant of Expanded: the extra goes to the last row or column of the span.
Expanded_Last(sizes, origin, end, content) ==
    IF Cumulative(sizes, origin, end) < content
    THEN [sizes EXCEPT ![IF end <= Len(sizes) THEN end ELSE Len(sizes)] =
                           @ + (content - Cumulative(sizes, origin, end))]
    ELSE sizes

\* Mutant of Expanded: the origin is given the whole content size.
Expanded_Whole(sizes, origin, end, content) ==
    IF Cumulative(sizes, origin, end) < content
    THEN [sizes EXCEPT ![origin + 1] = content]
    ELSE sizes

\* Mutant of Expanded: a spanning cell never expands its origin.
Expanded_Never(sizes, origin, end, content) == sizes

\* sizes after a spanning cell that needs `content` has been processed.
Expanded(sizes, origin, end, content) ==
    IF Cumulative(sizes, origin, end) < content
    THEN [sizes EXCEPT ![origin + 1] = @ + (content - Cumulative(sizes, origin, end))]
    ELSE sizes

\* for current in rowspans: one cell.
ExpandRowspan ==
    /\ pc = "expand"
    /\ err = ""
    /\ next_span < Len(rowspans)
    /\ LET current == cells[At(rowspans, next_span)]
       IN  IF current.row >= Len(row_heights_list)
           THEN Raise("IndexError")
           ELSE /\ row_heights_list' =
                       Expanded(row_heights_list, current.row, end_row_of(current),
                                content_height(Content(current)))
                /\ next_span' = next_span + 1
                /\ UNCHANGED <<writerVars, table, pc, err, walkVars, column_widths_list, tree, renderVars>>

\* for current in colspans: one cell.
ExpandColspan ==
    /\ pc = "expand"
    /\ err = ""
    /\ next_span >= Len(rowspans)
    /\ next_span < Len(rowspans) + Len(colspans)
    /\ LET current == cells[At(colspans, next_span - Len(rowspans))]
       IN  IF current.column >= Len(column_widths_list)
           THEN Raise("IndexError")
           ELSE /\ column_widths_list' =
                       Expanded(column_widths_list, current.column, end_column_of(current),
                                content_width(Content(current)))
                /\ next_span' = next_span + 1
                /\ UNCHANGED <<writerVars, table, pc, err, walkVars, row_heights_list, tree, renderVars>>

\* return TreeTable(...), to render's `tree = self.treeify()`.
TreeifyReturn ==
    /\ pc = "expand"
    /\ err = ""
    /\ next_span >= Len(rowspans) + Len(colspans)
    /\ tree' = TreeTable(header_row, row_heights_list, column_widths_list, top_row)
    /\ pc' = "treeified"
    /\ UNCHANGED <<writerVars, table, err, walkVars, listVars, renderVars>>

\* ------------------------------------------------------------------ render
\* Mutant of row_divider: the closing '+' is left out.
row_divider_Open(column, width, header) ==
    (IF column = 0 THEN <<"+">> ELSE <<>>)
        \o (IF header THEN Repeat("=", width) ELSE Repeat("-", width))

\* Mutant of row_divider: the header fill is never used.
row_divider_Plain(column, width, header) ==
    (IF column = 0 THEN <<"+">> ELSE <<>>) \o Repeat("-", width) \o <<"+">>

\* Table.row_divider
row_divider(column, width, header) ==
    (IF column = 0 THEN <<"+">> ELSE <<>>)
        \o (IF header THEN Repeat("=", width) ELSE Repeat("-", width))
        \o <<"+">>

\* str.ljust(width): padded on the right, never cut.
ljust(line, width) ==
    IF Len(line) >= width THEN line ELSE line \o Repeat(" ", width - Len(line))

\* cell.lines[idx], or "" past the last line (idx >= 0).
CellLine(cell, i) == IF i < Len(cell.lines) THEN At(cell.lines, i) ELSE <<>>

\* Mutant of LineCount: two dividers counted for every row.
LineCount_TwoDividers(t) ==
    SumSlice(t.row_heights, 0, Len(t.row_heights)) + 2 * Len(t.row_heights) + 1

\* line_count of render.
LineCount(t) == SumSlice(t.row_heights, 0, Len(t.row_heights)) + Len(t.row_heights) + 1

\* tree = self.treeify() has returned: the line buffers and the stack.
RenderStart ==
    /\ pc = "treeified"
    /\ err = ""
    /\ lines' = Repeat(<<>>, LineCount(tree))
    /\ rstack' = Reverse(tree.top_row)
    /\ pc' = "render"
    /\ UNCHANGED <<writerVars, table, err, walkVars, listVars, tree, idx, out>>

CellWidth(current) ==
    Content(current).morecols
        + SumSlice(tree.column_widths, current.column,
                   current.column + Content(current).morecols + 1)

CellHeight(current) ==
    Content(current).morerows
        + SumSlice(tree.row_heights, current.row,
                   current.row + Content(current).morerows + 1)

LineOffset(current) == 1 + current.row + SumSlice(tree.row_heights, 0, current.row)

\* Mutant of PyIndex: the index one further to the right.
PyIndex_Next(i, n) == i + 1

\* The index a Python list of length n reads for i: a negative i counts from
\* the end.
PyIndex(i, n) == IF i < 0 THEN i + n ELSE i

\* Mutant of LinesAfter: the cell's lines are padded to the cell's height.
LinesAfter_Padded(cell, height) ==
    IF Len(cell.lines) < height
    THEN cell.lines \o Repeat(<<>>, height - Len(cell.lines))
    ELSE cell.lines

\* cell.lines after `for idx in range(height)`: the loop reads cell.lines[idx]
\* and takes "" for a line the cell does not have; it writes nothing to the
\* CellContent.
LinesAfter(cell, height) == cell.lines

\* One turn of `while stack` of render: the cell's lines, the top border of a
\* row-0 cell, the divider below the cell, the corner above its left edge.
RenderCell ==
    /\ pc = "render"
    /\ err = ""
    /\ rstack # <<>>
    /\ LET top == rstack[Len(rstack)]
           current == cells[top]
           cell == Content(current)
           width == CellWidth(current)
           height == CellHeight(current)
           line_offset == LineOffset(current)
           left == Len(At(lines, line_offset))
           prefix == IF current.column = 0 THEN <<"|">> ELSE <<>>
           \* for idx in range(height)
           lines1 == [j \in 1 .. Len(lines) |->
                        IF line_offset <= j - 1 /\ j - 1 < line_offset + height
                        THEN lines[j] \o prefix
                                 \o ljust(CellLine(cell, j - 1 - line_offset), width)
                                 \o <<"|">>
                        ELSE lines[j]]
           idx1 == IF height > 0 THEN height - 1 ELSE idx
           \* Draw top divider.
           lines2 == IF current.row = 0
                     THEN [lines1 EXCEPT ![1] = @ \o row_divider(current.column, width, FALSE)]
                     ELSE lines1
           \* Draw dividers between rows.
           below == line_offset + idx1 + 1
           lines3 == [lines2 EXCEPT ![below + 1] =
                         @ \o row_divider(current.column, width,
                                          current.row = tree.header_row)]
           above == At(lines3, line_offset - 1)
           corner == PyIndex(left - 1, Len(above))
       IN  IF line_offset >= Len(lines)
           THEN Raise("IndexError")
           ELSE IF height > 0 /\ line_offset + height - 1 >= Len(lines)
           THEN Raise("IndexError")
           ELSE IF idx1 = Unbound
           THEN Raise("UnboundLocalError")
           ELSE IF below >= Len(lines)
           THEN Raise("IndexError")
           ELSE IF corner < 0 \/ corner >= Len(above)
           THEN Raise("IndexError")
           ELSE /\ rstack' = SubSeq(rstack, 1, Len(rstack) - 1) \o Reverse(current.children)
                /\ idx' = idx1
                /\ lines' = [lines3 EXCEPT ![line_offset][corner + 1] = "+"]
                /\ table' = [table EXCEPT
                                 !.rows[current.content[1] + 1][current.content[2] + 1].lines =
                                     LinesAfter(cell, height)]
                /\ UNCHANGED <<writerVars, pc, err, walkVars, listVars, tree, out>>

\* return ["".join(line) for line in lines]
RenderReturn ==
    /\ pc = "render"
    /\ err = ""
    /\ rstack = <<>>
    /\ out' = lines
    /\ pc' = "done"
    /\ UNCHANGED <<writerVars, table, err, walkVars, listVars, tree, lines, rstack, idx>>

Next ==
    \/ TreeifyStart
    \/ WalkFirst
    \/ WalkChild
    \/ WalkPop
    \/ Convert
    \/ ExpandRowspan
    \/ ExpandColspan
    \/ TreeifyReturn
    \/ RenderStart
    \/ RenderCell
    \/ RenderReturn

Spec == Init /\ [][Next]_vars

SpecRagged == InitRagged /\ [][Next]_vars

\* The caller calls render() again on the same Table, still holding the
\* lines the first call returned.
RenderAgain ==
    /\ pc = "done"
    /\ err = ""
    /\ pc' = "start"
    /\ cells' = <<>>
    /\ top_row' = <<>>
    /\ stack' = <<>>
    /\ next_first' = 0
    /\ in_column_indexes' = <<>>
    /\ in_columns' = <<>>
    /\ header_row' = None
    /\ row_heights' = <<>>
    /\ column_widths' = <<>>
    /\ rowspans' = <<>>
    /\ colspans' = <<>>
    /\ row_heights_list' = <<>>
    /\ column_widths_list' = <<>>
    /\ next_span' = 0
    /\ tree' = NoTree
    /\ lines' = <<>>
    /\ rstack' = <<>>
    /\ idx' = Unbound
    /\ UNCHANGED <<writerVars, table, err, out>>

NextTwice ==
    \/ Next
    \/ RenderAgain

SpecTwice == Init /\ [][NextTwice]_vars

\* ------------------------------------------------- vocabulary of the claims
\* The logical grid of a Table: its rows, and the columns it declares.
RowCount(t) == Len(t.rows)

ColumnCount(t) == Len(t.column_widths)

Grid(t) == (0 .. RowCount(t) - 1) \X (0 .. ColumnCount(t) - 1)

Range(s) == {s[i] : i \in DOMAIN s}

\* The first column at or after c that no earlier cell covers in row r.
RECURSIVE FreeColumn(_, _, _)
FreeColumn(occ, r, c) == IF <<r, c>> \in occ THEN FreeColumn(occ, r, c + 1) ELSE c

\* The cells of rows, from cell k of row r on, each with the true logical
\* column of its top-left corner: the first column right of the cell before it
\* that no cell spanning down from an earlier row occupies.
RECURSIVE Placed(_, _, _, _, _)
Placed(rows, r, k, c, occ) ==
    IF r >= Len(rows) THEN {}
    ELSE IF k >= Len(At(rows, r)) THEN Placed(rows, r + 1, 0, 0, occ)
    ELSE LET cell == At(At(rows, r), k)
             col == FreeColumn(occ, r, c)
         IN  {[r |-> r, k |-> k, column |-> col, content |-> cell]}
                 \cup Placed(rows, r, k + 1, col + cell.morecols + 1,
                            occ \cup Footprint(r, col, cell.morecols, cell.morerows))

PlacedCells(t) == Placed(t.rows, 0, 0, 0, {})

PlacedFootprint(p) == Footprint(p.r, p.column, p.content.morecols, p.content.morerows)

\* A valid Table: spans are not negative, every position of the grid is
\* covered by exactly one cell, and no cell leaves the grid.
Valid(t) ==
    /\ \A p \in PlacedCells(t) :
          /\ p.content.morecols >= 0
          /\ p.content.morerows >= 0
          /\ PlacedFootprint(p) \subseteq Grid(t)
    /\ \A pos \in Grid(t) :
          Cardinality({p \in PlacedCells(t) : pos \in PlacedFootprint(p)}) = 1

\* treeify has returned its TreeTable (to render).
TreeifyReturned == pc \in {"treeified", "render", "done"}

\* treeify has raised.
TreeifyRaised == pc \in {"start", "walk", "expand"} /\ err # ""

\* The TreeCells reachable from the returned top_row.
RECURSIVE ReachFrom(_, _)
ReachFrom(frontier, seen) ==
    IF frontier \subseteq seen THEN seen
    ELSE ReachFrom(UNION {Range(cells[i].children) : i \in frontier \ seen},
                   seen \cup frontier)

TreeIds == ReachFrom(Range(tree.top_row), {})

TreeFootprint(current) ==
    Footprint(current.row, current.column, Content(current).morecols,
              Content(current).morerows)

Sum(s) == SumSlice(s, 0, Len(s))

NoSpans(t) ==
    \A p \in PlacedCells(t) : p.content.morecols = 0 /\ p.content.morerows = 0

\* ------------------------------------------------------------------ claims
\* C1: in the tree treeify returns for a valid Table, every position of the
\* grid lies inside the footprint of exactly one reachable TreeCell.
C1_Coverage ==
    (TreeifyReturned /\ Valid(table)) =>
        \A pos \in Grid(table) :
            Cardinality({i \in TreeIds : pos \in TreeFootprint(cells[i])}) = 1

\* C1 witness: a returned tree with a row-spanning cell, a column-spanning
\* cell and a cell that has a child.
C1_Witness ==
    /\ TreeifyReturned
    /\ Valid(table)
    /\ \E i \in TreeIds : Content(cells[i]).morerows > 0
    /\ \E i \in TreeIds : Content(cells[i]).morecols > 0
    /\ \E i \in TreeIds : cells[i].children # <<>>

\* C2: each CellContent of rows[r] is the content of exactly one reachable
\* TreeCell, which has row r and the cell's true logical column; top_row is
\* the cells of rows[0] in order, all at row 0.
C2_Placement ==
    (TreeifyReturned /\ Valid(table) /\ table.rows # <<>>) =>
        /\ \A p \in PlacedCells(table) :
              /\ Cardinality({i \in TreeIds : cells[i].content = <<p.r, p.k>>}) = 1
              /\ \A i \in TreeIds :
                    cells[i].content = <<p.r, p.k>> =>
                        cells[i].row = p.r /\ cells[i].column = p.column
        /\ Len(tree.top_row) = Len(At(table.rows, 0))
        /\ \A n \in DOMAIN tree.top_row :
              /\ cells[tree.top_row[n]].content = <<0, n - 1>>
              /\ cells[tree.top_row[n]].row = 0

\* C2 witness: a returned tree with a cell below row 0 whose column is not
\* its place in its sparse row, because a cell spans down to its left.
C2_Witness ==
    /\ TreeifyReturned
    /\ Valid(table)
    /\ \E i \in TreeIds :
          /\ cells[i].row > 0
          /\ cells[i].column > cells[i].content[2]
          /\ cells[i].content[2] > 0

\* C3: in the returned sizes every column-spanning cell has
\* sum(column_widths[column .. column+morecols]) + morecols >= content_width
\* and every row-spanning cell the same for its rows and content_height.
C3_SpanSufficiency ==
    (TreeifyReturned /\ Valid(table)) =>
        \A i \in TreeIds :
            LET current == cells[i]
                cell == Content(current)
            IN  /\ cell.morecols > 0 =>
                      SumSlice(tree.column_widths, current.column,
                               current.column + cell.morecols + 1) + cell.morecols
                          >= content_width(cell)
                /\ cell.morerows > 0 =>
                      SumSlice(tree.row_heights, current.row,
                               current.row + cell.morerows + 1) + cell.morerows
                          >= content_height(cell)

\* C3 witness: two deferred cells of the same kind were processed and the
\* expansion pass changed a size.
C3_Witness ==
    /\ TreeifyReturned
    /\ Valid(table)
    /\ \/ Len(rowspans) >= 2 /\ tree.row_heights # DictToList(row_heights)
       \/ Len(colspans) >= 2 /\ tree.column_widths # DictToList(column_widths)

\* C4: every returned column width is at least the declared width.
C4_WidthMonotone ==
    (TreeifyReturned /\ Valid(table) /\ table.rows # <<>>) =>
        /\ Len(tree.column_widths) >= ColumnCount(table)
        /\ \A i \in 0 .. ColumnCount(table) - 1 :
              At(tree.column_widths, i) >= At(table.column_widths, i)

\* C4 witness: one column was widened by its content, another kept a
\* positive declared width above the content of a cell of its own.
C4_Witness ==
    /\ TreeifyReturned
    /\ Valid(table)
    /\ table.rows # <<>>
    /\ \E i \in 0 .. ColumnCount(table) - 1 :
          At(tree.column_widths, i) > At(table.column_widths, i)
    /\ \E p \in PlacedCells(table) :
          /\ p.content.morecols = 0
          /\ content_width(p.content) < At(table.column_widths, p.column)
          /\ At(tree.column_widths, p.column) = At(table.column_widths, p.column)

\* C5: every returned row height is >= 0 and holds every cell without
\* morerows that starts in the row, and every returned column width holds
\* every cell without morecols of the column: a cell without lines lowers
\* neither.
C5_RowsHoldCells ==
    (TreeifyReturned /\ Valid(table) /\ table.rows # <<>>) =>
        /\ Len(tree.row_heights) = RowCount(table)
        /\ \A j \in DOMAIN tree.row_heights : tree.row_heights[j] >= 0
        /\ \A p \in PlacedCells(table) :
              /\ p.content.morerows = 0 =>
                    At(tree.row_heights, p.r) >= content_height(p.content)
              /\ p.content.morecols = 0 =>
                    At(tree.column_widths, p.column) >= content_width(p.content)

\* C5 witness: a row in which a cell with lines is followed by a cell
\* without any, both without morerows.
C5_Witness ==
    /\ TreeifyReturned
    /\ Valid(table)
    /\ \E p, q \in PlacedCells(table) :
          /\ p.r = q.r
          /\ p.k < q.k
          /\ p.content.morerows = 0
          /\ q.content.morerows = 0
          /\ p.content.lines # <<>>
          /\ q.content.lines = <<>>
          /\ At(tree.row_heights, p.r) = content_height(p.content)

\* C6: without any span, column_widths[i] is the larger of the declared
\* width and the widest cell of column i, and row_heights[j] the tallest cell
\* of row j.
C6_NoSpanSizes ==
    (TreeifyReturned /\ Valid(table) /\ table.rows # <<>> /\ NoSpans(table)) =>
        /\ tree.column_widths =
              [n \in 1 .. ColumnCount(table) |->
                  SetMax({table.column_widths[n]} \cup
                         {content_width(p.content) :
                              p \in {q \in PlacedCells(table) : q.column = n - 1}})]
        /\ tree.row_heights =
              [n \in 1 .. RowCount(table) |->
                  SetMax({content_height(p.content) :
                              p \in {q \in PlacedCells(table) : q.r = n - 1}})]

\* C6 witness: a span-free table of two rows and two columns in which one
\* column takes its width from a cell and the other from the declaration.
C6_Witness ==
    /\ TreeifyReturned
    /\ Valid(table)
    /\ NoSpans(table)
    /\ RowCount(table) = 2
    /\ ColumnCount(table) = 2
    /\ At(tree.column_widths, 0) > At(table.column_widths, 0)
    /\ At(tree.column_widths, 1) = At(table.column_widths, 1)
    /\ At(table.column_widths, 1) > 0

\* C7: the number of lines render returns is sum(row_heights) + len(rows) + 1.
C7_LineCount ==
    (pc = "done" /\ Valid(table)) =>
        Len(out) = Sum(tree.row_heights) + RowCount(table) + 1

\* C7 witness: render has returned the lines of a table of three rows with
\* a row-spanning cell.
C7_Witness ==
    /\ pc = "done"
    /\ Valid(table)
    /\ RowCount(table) = 3
    /\ rowspans # <<>>
    /\ Len(out) > 4

\* C8: every line render returns for a valid Table with a row has the full
\* table width sum(column_widths) + column count + 1.
C8_EveryLineFullWidth ==
    (pc = "done" /\ Valid(table) /\ table.rows # <<>>) =>
        \A n \in DOMAIN out :
            Len(out[n]) = Sum(tree.column_widths) + ColumnCount(table) + 1

\* C9: for every valid Table with a row, treeify returns a TreeTable with
\* one height per row and one width per column.
C9_Lengths ==
    (Valid(table) /\ table.rows # <<>>) =>
        /\ ~TreeifyRaised
        /\ TreeifyReturned =>
              /\ Len(tree.row_heights) = RowCount(table)
              /\ Len(tree.column_widths) = ColumnCount(table)

\* C10: for a Table without rows treeify returns, without raising, a
\* TreeTable with no heights, no widths, no top row and no header row.
C10_EmptyTable ==
    table.rows = <<>> =>
        /\ ~TreeifyRaised
        /\ pc # "start" =>
              /\ TreeifyReturned
              /\ tree.row_heights = <<>>
              /\ tree.column_widths = <<>>
              /\ tree.top_row = <<>>
              /\ tree.header_row = None

\* C10 witness: treeify has returned for a Table without rows that declares
\* column widths.
C10_Witness ==
    /\ table.rows = <<>>
    /\ table.column_widths # <<>>
    /\ \E n \in DOMAIN table.column_widths : table.column_widths[n] > 0
    /\ pc = "treeified"

\* ---------------------------------------------- vocabulary of C11 and C12
\* The sizes the expansion pass works on, and the returned ones once treeify
\* has returned.
RowHeightsNow == IF TreeifyReturned THEN tree.row_heights ELSE row_heights_list

ColumnWidthsNow == IF TreeifyReturned THEN tree.column_widths ELSE column_widths_list

\* What the cells without morerows that start in row r make of its height,
\* and the declared width and the cells without morecols of column c of its
\* width.
BaseRowHeight(t, r) ==
    SetMax({0} \cup {content_height(p.content) :
                        p \in {q \in PlacedCells(t) : q.r = r /\ q.content.morerows = 0}})

BaseColumnWidth(t, c) ==
    SetMax({At(t.column_widths, c)} \cup
           {content_width(p.content) :
                p \in {q \in PlacedCells(t) : q.column = c /\ q.content.morecols = 0}})

\* The rows (columns) origin .. origin + more that sizes has an entry for.
Covered(sizes, origin, more) == {j \in origin .. origin + more : j < Len(sizes)}

RECURSIVE SumOver(_, _)
SumOver(sizes, S) ==
    IF S = {} THEN 0
    ELSE LET j == CHOOSE x \in S : TRUE IN At(sizes, j) + SumOver(sizes, S \ {j})

\* The room a span has: the sizes of what it covers and one per boundary
\* between two of them.
Room(sizes, origin, more) ==
    SumOver(sizes, Covered(sizes, origin, more))
        + Cardinality(Covered(sizes, origin, more)) - 1

Shortfall(sizes, origin, more, content) ==
    IF content > Room(sizes, origin, more) THEN content - Room(sizes, origin, more) ELSE 0

\* The step of the expansion pass that processes one cell of rowspans
\* (colspans).
RowspanStep == pc = "expand" /\ next_span < Len(rowspans) /\ next_span' = next_span + 1

ColspanStep == pc = "expand" /\ next_span >= Len(rowspans) /\ next_span' = next_span + 1

SpanCell == IF next_span < Len(rowspans)
            THEN cells[At(rowspans, next_span)]
            ELSE cells[At(colspans, next_span - Len(rowspans))]

\* C11, the frame: from the conversion on, a row that no row-spanning cell
\* starts in has the height its cells without morerows give it, and a column
\* that no column-spanning cell starts in has the larger of its declared width
\* and the widths of its cells without morecols.
C11_Frame ==
    ((pc = "expand" \/ TreeifyReturned) /\ Valid(table) /\ table.rows # <<>>) =>
        /\ \A r \in 0 .. Len(RowHeightsNow) - 1 :
              (\A p \in PlacedCells(table) : p.content.morerows > 0 => p.r # r) =>
                  At(RowHeightsNow, r) = BaseRowHeight(table, r)
        /\ \A c \in 0 .. ColumnCount(table) - 1 :
              (\A p \in PlacedCells(table) : p.content.morecols > 0 => p.column # c) =>
                  At(ColumnWidthsNow, c) = BaseColumnWidth(table, c)

\* C11, the step: processing a row-spanning cell adds its shortfall to the
\* height of its origin row and changes nothing else; the same for a
\* column-spanning cell and the width of its origin column.
C11_Step ==
    /\ RowspanStep =>
          /\ column_widths_list' = column_widths_list
          /\ row_heights_list' =
                [j \in 1 .. Len(row_heights_list) |->
                    IF j - 1 = SpanCell.row
                    THEN row_heights_list[j]
                             + Shortfall(row_heights_list, SpanCell.row,
                                         Content(SpanCell).morerows,
                                         content_height(Content(SpanCell)))
                    ELSE row_heights_list[j]]
    /\ ColspanStep =>
          /\ row_heights_list' = row_heights_list
          /\ column_widths_list' =
                [j \in 1 .. Len(column_widths_list) |->
                    IF j - 1 = SpanCell.column
                    THEN column_widths_list[j]
                             + Shortfall(column_widths_list, SpanCell.column,
                                         Content(SpanCell).morecols,
                                         content_width(Content(SpanCell)))
                    ELSE column_widths_list[j]]

\* C11: in the expansion pass the shortfall of a spanning cell is added
\* entirely to the height of its origin row (the width of its origin column);
\* a row that is the origin of no row-spanning cell and a column that is the
\* origin of no column-spanning cell keep the size the non-spanning cells (and
\* the declared width) gave them.
C11_OriginCredit == [](C11_Frame) /\ [][C11_Step]_vars

\* C11 witness: treeify has returned a table in which a row-spanning cell
\* and a column-spanning cell each made their origin larger, while a later
\* row and a later column they cover kept their base size.
C11_Witness ==
    /\ TreeifyReturned
    /\ Valid(table)
    /\ \E p \in PlacedCells(table) :
          /\ p.content.morerows > 0
          /\ At(tree.row_heights, p.r) > BaseRowHeight(table, p.r)
          /\ At(tree.row_heights, p.r + 1) = BaseRowHeight(table, p.r + 1)
    /\ \E p \in PlacedCells(table) :
          /\ p.content.morecols > 0
          /\ At(tree.column_widths, p.column) > BaseColumnWidth(table, p.column)
          /\ At(tree.column_widths, p.column + 1) = BaseColumnWidth(table, p.column + 1)
\* C12, the step: a spanning cell whose content is at most the room it has
\* when it is processed (the current sizes of what it covers plus one per
\* internal boundary) leaves every row height and every column width as it is.
C12_Step ==
    /\ (RowspanStep /\ content_height(Content(SpanCell))
                          <= Room(row_heights_list, SpanCell.row, Content(SpanCell).morerows)) =>
          /\ row_heights_list' = row_heights_list
          /\ column_widths_list' = column_widths_list
    /\ (ColspanStep /\ content_width(Content(SpanCell))
                          <= Room(column_widths_list, SpanCell.column,
                                  Content(SpanCell).morecols)) =>
          /\ row_heights_list' = row_heights_list
          /\ column_widths_list' = column_widths_list

\* C12: in the expansion pass, processing a spanning cell whose content
\* height (width) is at most the sum of the current heights (widths) of the
\* rows (columns) it covers plus one per internal boundary changes no row
\* height and no column width.
C12_FittingSpan == [][C12_Step]_vars

\* C12 witness: a row-spanning cell with content has been processed that is
\* taller than the rows it covers together and fits only with the boundary
\* lines counted, and no size has changed since the conversion.
C12_Witness ==
    /\ pc = "expand"
    /\ err = ""
    /\ next_span >= 1
    /\ row_heights_list = DictToList(row_heights)
    /\ column_widths_list = DictToList(column_widths)
    /\ \E n \in 0 .. next_span - 1 :
          /\ n < Len(rowspans)
          /\ LET current == cells[At(rowspans, n)]
                 height == content_height(Content(current))
                 covered == Covered(row_heights_list, current.row, Content(current).morerows)
             IN  /\ height > SumOver(row_heights_list, covered)
                 /\ height <= Room(row_heights_list, current.row, Content(current).morerows)
\* C13: the header_row treeify returns for a valid Table is None when no
\* cell is a header cell, and else the largest row in which a header cell
\* starts, in whatever order the walk popped the cells.
C13_HeaderRow ==
    (TreeifyReturned /\ Valid(table) /\ table.rows # <<>>) =>
        LET headers == {p \in PlacedCells(table) : p.content.header}
        IN  IF headers = {}
            THEN tree.header_row = None
            ELSE tree.header_row = SetMax({p.r : p \in headers})

\* C13 witness: a header cell of row 0 has a header cell of row 1 among its
\* children, which the walk pops before it, and row 1 was returned.
C13_Witness ==
    /\ TreeifyReturned
    /\ Valid(table)
    /\ tree.header_row = 1
    /\ \E i \in TreeIds :
          /\ cells[i].row = 0
          /\ Content(cells[i]).header
          /\ \E n \in DOMAIN cells[i].children :
                /\ cells[cells[i].children[n]].row = 1
                /\ Content(cells[cells[i].children[n]]).header
\* ---------------------------------------------- vocabulary of C14 and C15
\* Some position of the grid is covered by no cell, or by more than one.
CoverageViolated(t) ==
    \E pos \in Grid(t) :
        Cardinality({p \in PlacedCells(t) : pos \in PlacedFootprint(p)}) # 1

\* The number of columns the first row implies.
RECURSIVE RowColumns(_)
RowColumns(row) ==
    IF row = <<>> THEN 0 ELSE row[1].morecols + 1 + RowColumns(Tail(row))

FirstRowColumns(t) == RowColumns(At(t.rows, 0))

\* C14: for a Table with non-negative spans, and as many declared widths as
\* its first row has columns, in which some grid position is covered by no
\* cell or by more than one, treeify raises: it never returns a TreeTable.
C14_MalformedFails ==
    (/\ table.rows # <<>>
     /\ FirstRowColumns(table) = ColumnCount(table)
     /\ CoverageViolated(table)) => ~TreeifyReturned

\* C15: for a Table whose number of declared column widths differs from the
\* number of columns its first row implies, treeify raises: it never returns
\* a TreeTable.
C15_WidthMismatchFails ==
    (table.rows # <<>> /\ FirstRowColumns(table) # ColumnCount(table)) => ~TreeifyReturned
\* ---------------------------------------------- vocabulary of C16 to C20
\* The place of a TreeCell in the returned lines: the index of its first
\* content line, of the character left of its content, and its size.
TopLine(current) == 1 + current.row + SumSlice(tree.row_heights, 0, current.row)

LeftEdge(current) == current.column + SumSlice(tree.column_widths, 0, current.column)

\* out[l][x], or "" where the returned lines have no such character.
OutChar(l, x) ==
    IF l >= 0 /\ l < Len(out) /\ x >= 0 /\ x < Len(At(out, l)) THEN At(At(out, l), x) ELSE ""

\* Every row holds a cell without morerows.
EveryRowSized(t) ==
    \A r \in 0 .. RowCount(t) - 1 :
        \E p \in PlacedCells(t) : p.r = r /\ p.content.morerows = 0

\* C16: for a valid Table with a cell without content lines, neither treeify
\* nor render raises, and in the returned lines a cell of height 0 has its
\* bottom divider on the line right after its (zero) content lines.  Stated
\* of the tables in which every row holds a cell without morerows.
C16_ZeroLines ==
    (/\ Valid(table)
     /\ EveryRowSized(table)
     /\ \E p \in PlacedCells(table) : p.content.lines = <<>>) =>
        /\ err = ""
        /\ pc = "done" =>
              \A i \in TreeIds :
                  CellHeight(cells[i]) = 0 =>
                      \A x \in 1 .. CellWidth(cells[i]) :
                          OutChar(TopLine(cells[i]), LeftEdge(cells[i]) + x) \in {"-", "="}

\* C17: on a valid Table the walk creates no more TreeCells than the table
\* has cells, and treeify's walk, its expansion pass and render's traversal
\* never raise.
C17_CompletesWithoutRaising ==
    Valid(table) =>
        /\ err = ""
        /\ Len(cells) <= Cardinality(PlacedCells(table))
\* C18, the step: no step of treeify or render changes the Table or a
\* CellContent of it, and the second render() returns the lines the first one
\* returned.
C18_Step ==
    /\ table' = table
    /\ (pc = "render" /\ pc' = "done" /\ out # <<>>) => out' = out

\* C18: treeify and render leave column_widths, rows, in_header and every
\* CellContent as they were, so that a second render() of the same Table
\* returns the same lines.
C18_InputUnchanged == [][C18_Step]_vars

\* C18 witness: the second render() of a table with a spanning cell and a
\* cell shorter than its row is about to return the lines of the first.
C18_Witness ==
    /\ pc = "render"
    /\ err = ""
    /\ rstack = <<>>
    /\ out # <<>>
    /\ lines = out
    /\ rowspans # <<>>
    /\ \E i \in TreeIds : 0 < Len(Content(cells[i]).lines)
                          /\ Len(Content(cells[i]).lines) < CellHeight(cells[i])
\* Every row of the returned tree has a height of at least 1.
RowsHaveHeight == \A n \in DOMAIN tree.row_heights : tree.row_heights[n] >= 1

\* The characters of a cell's content lines.
ContentChars(cell) == UNION {Range(cell.lines[n]) : n \in DOMAIN cell.lines}

\* C19: in the lines returned for a valid Table whose rows all have height
\* >= 1, the rectangle of every cell has only '+', '-', '=' on its top and
\* bottom edge and only '|', '+' on its left and right edge, and strictly
\* inside only characters of the cell's content lines and spaces.
C19_SpanTopology ==
    (pc = "done" /\ Valid(table) /\ table.rows # <<>> /\ RowsHaveHeight) =>
        \A i \in TreeIds :
            LET current == cells[i]
                top == TopLine(current) - 1
                bottom == TopLine(current) + CellHeight(current)
                left == LeftEdge(current)
                right == LeftEdge(current) + CellWidth(current) + 1
            IN  /\ \A x \in left .. right :
                      /\ OutChar(top, x) \in {"+", "-", "="}
                      /\ OutChar(bottom, x) \in {"+", "-", "="}
                /\ \A l \in top .. bottom :
                      /\ OutChar(l, left) \in {"|", "+"}
                      /\ OutChar(l, right) \in {"|", "+"}
                /\ \A l \in top + 1 .. bottom - 1 :
                      \A x \in left + 1 .. right - 1 :
                          OutChar(l, x) \in ContentChars(Content(current)) \cup {" "}

\* C19 witness: lines were returned for a table with rows of height >= 1
\* that has a column-spanning cell and a cell that starts right of a
\* row-spanning cell, below that cell's first row.
C19_Witness ==
    /\ pc = "done"
    /\ Valid(table)
    /\ RowsHaveHeight
    /\ \E i \in TreeIds : Content(cells[i]).morecols > 0
    /\ \E i, j \in TreeIds :
          /\ Content(cells[j]).morerows > 0
          /\ cells[i].row > cells[j].row
          /\ cells[i].row <= cells[j].row + Content(cells[j]).morerows
          /\ cells[i].column = end_column_of(cells[j])
\* The character that closes a line of a cell: '|', or the '+' of the
\* top-left corner of a cell that starts right of it on that line.
Closing == {"|", "+"}

\* C20: in the lines returned for a valid Table, line i of every cell stands
\* on line 1 + row + sum(row_heights[0:row]) + i from offset
\* 1 + column + sum(column_widths[0:column]) on, left-justified, padded with
\* spaces to the cell's width and followed by the closing character; the lines
\* of the footprint beyond the content are spaces closed the same way; no
\* content line is dropped or truncated.
C20_ContentPlaced ==
    (pc = "done" /\ Valid(table)) =>
        \A i \in TreeIds :
            LET current == cells[i]
                cell == Content(current)
                width == CellWidth(current)
                left == LeftEdge(current)
            IN  /\ content_height(cell) <= CellHeight(current)
                /\ content_width(cell) <= width
                /\ \A n \in 0 .. CellHeight(current) - 1 :
                      /\ \A x \in 1 .. width :
                            OutChar(TopLine(current) + n, left + x) =
                                IF x <= Len(CellLine(cell, n))
                                THEN CellLine(cell, n)[x] ELSE " "
                      /\ OutChar(TopLine(current) + n, left + width + 1) \in Closing

\* ---------------------------------------------- vocabulary of C21 and C22
\* The step of render that draws the cell on top of the stack.
CellStep == pc = "render" /\ rstack # <<>> /\ rstack' # rstack

DrawnCell == cells[rstack[Len(rstack)]]

\* What the step appended to line l.
Appended(l) == SubSeq(At(lines', l), Len(At(lines, l)) + 1, Len(At(lines', l)))

\* A divider of the given width and fill, as it reads once drawn: the
\* leading '+' of a cell of column 0, the fill, the closing '+'.
DividerOf(column, width, fill) ==
    (IF column = 0 THEN <<"+">> ELSE <<>>) \o Repeat(fill, width) \o <<"+">>

\* C21, the step: drawing a cell appends one divider below it, filled with
\* '=' exactly when the cell's row is the header_row and with '-' otherwise,
\* on the line after the last line of its footprint when the cell has a line;
\* a cell of row 0 also appends the top border, always filled with '-'.
C21_Step ==
    CellStep =>
        LET current == DrawnCell
            width == CellWidth(current)
            after == TopLine(current) + CellHeight(current)
            fill == IF current.row = tree.header_row THEN "=" ELSE "-"
        IN  /\ \E l \in after .. Len(lines) - 1 :
                  /\ Appended(l) = DividerOf(current.column, width, fill)
                  /\ CellHeight(current) >= 1 => l = after
                  /\ \A m \in after .. Len(lines) - 1 : m # l => At(lines', m) = At(lines, m)
            /\ current.row = 0 =>
                  SubSeq(Appended(0), 1, Len(Appended(0)) - 1)
                      = SubSeq(DividerOf(current.column, width, "-"), 1,
                               Len(DividerOf(current.column, width, "-")) - 1)

\* C21: the divider render draws below a cell is filled with '=' exactly
\* when the cell's origin row is the resolved header_row, and with '-'
\* otherwise; the top border of the cells of row 0 is always filled with '-'.
C21_DividerFill == [][C21_Step]_vars

\* C21 witness: while render is drawing, a divider filled with '=' stands
\* below a header row that is not row 0, and one filled with '-' above it.
C21_Witness ==
    /\ pc = "render"
    /\ err = ""
    /\ tree.header_row >= 1
    /\ \E l, m \in 1 .. Len(lines) - 1 :
          /\ m < l
          /\ "=" \in Range(At(lines, l))
          /\ "-" \in Range(At(lines, m))
\* The line above the drawn cell's first content line as the stitching write
\* finds it: for a cell of row 0 the top border has just been appended.
AboveLine(current) ==
    IF current.row = 0
    THEN At(lines, 0) \o DividerOf(current.column, CellWidth(current), "-")
    ELSE At(lines, TopLine(current) - 1)

\* The index the stitching write lines[line_offset - 1][left - 1] reaches.
StitchIndex(current) ==
    PyIndex(Len(At(lines, TopLine(current))) - 1, Len(AboveLine(current)))

\* The stitching write of the step: it reaches an existing character of the
\* line above, which is a border character, and sets it to '+'.
StitchWrites(current) ==
    /\ StitchIndex(current) >= 0
    /\ StitchIndex(current) < Len(AboveLine(current))
    /\ At(AboveLine(current), StitchIndex(current)) \in {"+", "-", "=", "|"}
    /\ At(lines', TopLine(current) - 1) =
          [AboveLine(current) EXCEPT ![StitchIndex(current) + 1] = "+"]

\* Every corner of every cell's rectangle holds '+' in the returned lines of
\* a valid Table whose rows all have height >= 1.
C22_Corners ==
    (pc = "done" /\ Valid(table) /\ table.rows # <<>> /\ RowsHaveHeight) =>
        \A i \in TreeIds :
            \A l \in {TopLine(cells[i]) - 1, TopLine(cells[i]) + CellHeight(cells[i])} :
                \A x \in {LeftEdge(cells[i]),
                          LeftEdge(cells[i]) + CellWidth(cells[i]) + 1} :
                    OutChar(l, x) = "+"

\* C22 as stated, the step: the stitching write reaches a corner of the
\* drawn cell.
C22_StepCorner ==
    (CellStep /\ Valid(table) /\ RowsHaveHeight) =>
        /\ StitchWrites(DrawnCell)
        /\ StitchIndex(DrawnCell) \in
              {LeftEdge(DrawnCell), LeftEdge(DrawnCell) + CellWidth(DrawnCell) + 1}

\* C22 as stated: every corner of every cell holds '+', and the stitching
\* write always reaches an existing character that is a corner of the drawn
\* cell, never a content character and never an index out of range.
C22_StitchAtOwnCorner == [](C22_Corners) /\ [][C22_StepCorner]_vars

\* C22 as amended, the step: for a cell right of column 0 the stitching
\* write reaches the cell's top-left corner; for a cell of column 0 it
\* reaches the last character of the line above, which is a '+' already.
C22_StepAmended ==
    (CellStep /\ Valid(table) /\ RowsHaveHeight) =>
        /\ StitchWrites(DrawnCell)
        /\ DrawnCell.column > 0 => StitchIndex(DrawnCell) = LeftEdge(DrawnCell)
        /\ DrawnCell.column = 0 =>
              /\ StitchIndex(DrawnCell) = Len(AboveLine(DrawnCell)) - 1
              /\ At(AboveLine(DrawnCell), StitchIndex(DrawnCell)) = "+"

\* C22 (amended): every corner of every cell holds '+', and the stitching
\* write always reaches an existing border character, never a content
\* character and never an index out of range: the top-left corner of a cell
\* right of column 0, and for a cell of column 0 the '+' that ends the line
\* above.
C22_Stitching == [](C22_Corners) /\ [][C22_StepAmended]_vars

\* C22 witness: lines were returned for a table with rows of height >= 1 in
\* which a cell of column 0 lies below a wider cell of column 0, so that the
\* line above it ends right of the cell's own corners.
C22_Witness ==
    /\ pc = "done"
    /\ Valid(table)
    /\ RowsHaveHeight
    /\ \E i \in TreeIds :
          /\ cells[i].column = 0
          /\ \E n \in DOMAIN cells[i].children :
                /\ cells[cells[i].children[n]].column = 0
                /\ Content(cells[cells[i].children[n]]).morecols < Content(cells[i]).morecols

\* The children of TreeCell p, in the order of p.children.
ChildrenOf(p) == [n \in DOMAIN p.children |-> cells[p.children[n]]]

\* C23: for a valid Table, every child ch of a TreeCell p has
\* ch.row = p.row + p.morerows + 1 and p.column <= ch.column <
\* p.column + p.morecols + 1, and the children of p stand in strictly
\* increasing column order.  It holds of every TreeCell from the moment a
\* child is appended to it, hence of the tree treeify returns.
C23_Children ==
    Valid(table) =>
        \A i \in DOMAIN cells :
            LET p == cells[i]
                ch == ChildrenOf(p)
            IN  /\ \A n \in DOMAIN ch :
                       /\ ch[n].row = p.row + Content(p).morerows + 1
                       /\ p.column <= ch[n].column
                       /\ ch[n].column < p.column + Content(p).morecols + 1
                /\ \A m, n \in DOMAIN ch : m < n => ch[m].column < ch[n].column

\* treeify has returned a tree in which a column-spanning cell has two
\* children, below a row-spanning cell too.
C23_Witness ==
    /\ TreeifyReturned
    /\ Valid(table)
    /\ \E i \in TreeIds : Len(cells[i].children) >= 2
    /\ \E i \in TreeIds :
          /\ Content(cells[i]).morerows >= 1
          /\ cells[i].children # <<>>

\* The header cells of t occupy exactly the leading rows 0..h: a cell is a
\* header cell exactly when it starts in one of these rows, and no header
\* cell reaches below row h.
HeaderLeads(t, h) ==
    /\ h \in 0 .. RowCount(t) - 1
    /\ \A p \in PlacedCells(t) :
          /\ p.content.header <=> p.r <= h
          /\ p.content.header => p.r + p.content.morerows <= h

\* The index in the returned lines of the divider below row r.
DividerLine(r) == 1 + r + SumSlice(tree.row_heights, 0, r + 1)

\* C24: for a valid Table whose header cells occupy the leading rows 0..h,
\* the divider line below row h of the output holds only '=' and '+', also
\* below a header cell that spans several header rows, and '=' stands on no
\* other line.  (Rows of height 0 are left out: what they do to dividers is
\* the subject of C16.)
C24_HeaderDivider ==
    (pc = "done" /\ Valid(table) /\ RowsHaveHeight) =>
        \A h \in 0 .. RowCount(table) - 1 :
            HeaderLeads(table, h) =>
                \A l \in 0 .. Len(out) - 1 :
                    \A x \in 0 .. Len(At(out, l)) - 1 :
                        IF l = DividerLine(h)
                        THEN OutChar(l, x) \in {"=", "+"}
                        ELSE OutChar(l, x) # "="

\* The characters a line holds left of a cell of the given TreeCell's column
\* once every cell left of it on that line has been drawn.
LeftOf(current) == IF current.column = 0 THEN 0 ELSE 1 + LeftEdge(current)

\* C25, the state: the cell render visits next finds on its first content
\* line 0 characters if its column is 0 and 1 + c + sum(column_widths[0:c])
\* otherwise.
C25_Left ==
    (pc = "render" /\ err = "" /\ rstack # <<>> /\ Valid(table)) =>
        Len(At(lines, TopLine(DrawnCell))) = LeftOf(DrawnCell)

\* C25, the step: every line the drawn cell appends to holds exactly the
\* characters of the cells left of it, so the cells that write to one line
\* are visited in strictly increasing column order.
C25_Step ==
    (CellStep /\ Valid(table)) =>
        \A l \in 0 .. Len(lines) - 1 :
            Len(At(lines', l)) > Len(At(lines, l)) =>
                Len(At(lines, l)) = LeftOf(DrawnCell)

\* C25: in render's pre-order traversal of a valid Table's tree the cells
\* that write to one output line are visited in strictly increasing column
\* order: a cell at column c finds 0 characters on its first content line
\* if c = 0 and 1 + c + sum(column_widths[0:c]) otherwise.
C25_ColumnOrder == [](C25_Left) /\ [][C25_Step]_vars

\* The grid positions covered by the TreeCells created so far.
CoveredSoFar == UNION {TreeFootprint(cells[i]) : i \in DOMAIN cells}

\* C26, the pop: when the cell on top of the stack has no more children,
\* every row of its footprint is filled no further than its end column, and
\* the assertion has never failed.
C26_Pop ==
    Valid(table) =>
        /\ err # "AssertionError"
        /\ (pc = "walk" /\ err = "" /\ stack # <<>>
                /\ ~StillChildren(cells[stack[Len(stack)]])) =>
               \A r \in PopRows(cells[stack[Len(stack)]]) :
                   /\ r < Len(in_columns)
                   /\ At(in_columns, r) <= end_column_of(cells[stack[Len(stack)]])

\* C26, the step: no in_columns[r] decreases, and a TreeCell is created at
\* a grid position that no TreeCell created before it covers.
C26_Step ==
    (pc = "walk" /\ pc' = "walk" /\ Valid(table)) =>
        /\ \A r \in 0 .. Len(in_columns) - 1 : At(in_columns', r) >= At(in_columns, r)
        /\ Len(cells') > Len(cells) =>
               LET child == cells'[Len(cells')]
               IN  /\ child.column = At(in_columns, child.row)
                   /\ <<child.row, child.column>> \in Grid(table)
                   /\ <<child.row, child.column>> \notin CoveredSoFar

\* C26: during treeify's walk over a valid Table no in_columns[r] ever
\* decreases; whenever a cell is popped every row r of its footprint has
\* in_columns[r] <= the cell's end column, so the assertion never fails;
\* and whenever a child is created at row e, in_columns[e] is the column of
\* a grid position not covered by any cell created before.
C26_InColumns == [](C26_Pop) /\ [][C26_Step]_vars

\* The walk has popped a cell that spans rows, has filled a row below the
\* first, and is visiting a child.
C26_Witness ==
    /\ pc = "walk"
    /\ err = ""
    /\ Valid(table)
    /\ Len(stack) >= 2
    /\ \E r \in 1 .. Len(in_columns) - 1 : At(in_columns, r) >= 1
    /\ \E i \in DOMAIN cells :
          /\ i \notin Range(stack)
          /\ Content(cells[i]).morerows >= 1

\* The walk of treeify over a table with rows has finished: the loop over
\* rows[0] is exhausted and the stack is empty, or treeify went on from there.
WalkFinished ==
    /\ table.rows # <<>>
    /\ \/ pc \in {"expand", "treeified", "render", "done"}
       \/ /\ pc = "walk"
          /\ stack = <<>>
          /\ next_first >= Len(At(table.rows, 0))

\* The cells of the sparse rows, as <<row, index in the row>>.
SparseCells(t) ==
    {<<r, k>> \in (0 .. RowCount(t) - 1) \X (0 .. MaxCells) : k < Len(At(t.rows, r))}

\* C27: when treeify's walk over a valid Table has finished, every row r
\* has in_column_indexes[r] = len(rows[r]) and in_columns[r] = the column
\* count, and every cell of every sparse row is the content of exactly one
\* TreeCell.
C27_AllPulled ==
    (WalkFinished /\ Valid(table)) =>
        /\ \A r \in 0 .. RowCount(table) - 1 :
              /\ At(in_column_indexes, r) = Len(At(table.rows, r))
              /\ At(in_columns, r) = ColumnCount(table)
        /\ \A rk \in SparseCells(table) :
              Cardinality({i \in DOMAIN cells : cells[i].content = rk}) = 1
        /\ \A i \in DOMAIN cells : cells[i].content \in SparseCells(table)

\* The walk has finished over a table with several rows, one of them pulled
\* from more than once, and with a cell that spans rows.
C27_Witness ==
    /\ WalkFinished
    /\ pc = "walk"
    /\ err = ""
    /\ Valid(table)
    /\ RowCount(table) >= 2
    /\ \E r \in 1 .. RowCount(table) - 1 : At(in_column_indexes, r) >= 2
    /\ \E i \in DOMAIN cells : Content(cells[i]).morerows >= 1

\* ------------------------------------------------------ vocabulary of C28
\* The cells of t that start in row j and span rows, and those that start in
\* column i and span columns.
RowSpanning(t, j) == {p \in PlacedCells(t) : p.r = j /\ p.content.morerows >= 1}

ColumnSpanning(t, i) == {p \in PlacedCells(t) : p.column = i /\ p.content.morecols >= 1}

\* The sizes the expansion pass resolves when it processes the deferred
\* cells `spans` in the order given, from the sizes `sizes` on.
RECURSIVE ExpandInOrder(_, _, _)
ExpandInOrder(sizes, spans, rowwise) ==
    IF spans = <<>> THEN sizes
    ELSE LET current == cells[Head(spans)]
         IN  ExpandInOrder(
                 IF rowwise
                 THEN Expanded(sizes, current.row, end_row_of(current),
                               content_height(Content(current)))
                 ELSE Expanded(sizes, current.column, end_column_of(current),
                               content_width(Content(current))),
                 Tail(spans), rowwise)

\* The orders in which the cells of s can be processed.
Orders(s) ==
    {[n \in DOMAIN s |-> s[f[n]]] :
        f \in {g \in [DOMAIN s -> DOMAIN s] : \A m, n \in DOMAIN s : m # n => g[m] # g[n]}}

\* The base sizes of the rows (columns) after the first of a span.
BaseRoomBelow(t, p) ==
    SumOver([r \in 1 .. RowCount(t) |-> BaseRowHeight(t, r - 1)],
            (p.r + 1) .. (p.r + p.content.morerows))

BaseRoomRight(t, p) ==
    SumOver([c \in 1 .. ColumnCount(t) |-> BaseColumnWidth(t, c - 1)],
            (p.column + 1) .. (p.column + p.content.morecols))

\* The statement as first made: for every valid Table every resolved row
\* height is the base height of the row or some row-spanning cell that
\* starts in the row fits exactly, likewise the column widths, and the sizes
\* are the same in whatever order the deferred cells are processed.
C28_Tight ==
    (TreeifyReturned /\ Valid(table) /\ table.rows # <<>>) =>
        /\ \A j \in 0 .. Len(tree.row_heights) - 1 :
              \/ At(tree.row_heights, j) = BaseRowHeight(table, j)
              \/ \E p \in RowSpanning(table, j) :
                     Room(tree.row_heights, j, p.content.morerows)
                         = content_height(p.content)
        /\ \A i \in 0 .. Len(tree.column_widths) - 1 :
              \/ At(tree.column_widths, i) = BaseColumnWidth(table, i)
              \/ \E p \in ColumnSpanning(table, i) :
                     Room(tree.column_widths, i, p.content.morecols)
                         = content_width(p.content)
        /\ \A o \in Orders(rowspans) :
              ExpandInOrder(DictToList(row_heights), o, TRUE) = tree.row_heights
        /\ \A o \in Orders(colspans) :
              ExpandInOrder(DictToList(column_widths), o, FALSE) = tree.column_widths

\* C28: for every valid Table and every row j, the resolved row_heights[j]
\* is the base height of row j, or some row-spanning cell that starts in
\* row j needs it: the cell fits into the resolved rows, and would not fit
\* into a smaller row j even if its other rows had only their base heights.
\* Likewise for every column i and the column-spanning cells that start in
\* it.
C28_Needed ==
    (TreeifyReturned /\ Valid(table) /\ table.rows # <<>>) =>
        /\ \A j \in 0 .. Len(tree.row_heights) - 1 :
              \/ At(tree.row_heights, j) = BaseRowHeight(table, j)
              \/ \E p \in RowSpanning(table, j) :
                     /\ At(tree.row_heights, j) + BaseRoomBelow(table, p)
                            + p.content.morerows <= content_height(p.content)
                     /\ content_height(p.content)
                            <= Room(tree.row_heights, j, p.content.morerows)
        /\ \A i \in 0 .. Len(tree.column_widths) - 1 :
              \/ At(tree.column_widths, i) = BaseColumnWidth(table, i)
              \/ \E p \in ColumnSpanning(table, i) :
                     /\ At(tree.column_widths, i) + BaseRoomRight(table, p)
                            + p.content.morecols <= content_width(p.content)
                     /\ content_width(p.content)
                            <= Room(tree.column_widths, i, p.content.morecols)

\* treeify has returned sizes in which a row was raised by a row-spanning
\* cell that now has room to spare, because a later cell raised another of
\* its rows.
C28_Witness ==
    /\ TreeifyReturned
    /\ Valid(table)
    /\ table.rows # <<>>
    /\ \E j \in 0 .. Len(tree.row_heights) - 1 :
          /\ At(tree.row_heights, j) > BaseRowHeight(table, j)
          /\ \A p \in RowSpanning(table, j) :
                 Room(tree.row_heights, j, p.content.morerows)
                     > content_height(p.content)

\* ------------------------------------------- the writer's table handlers
\* The bounds of the documents: tables and entries visited in all, rows and
\* colspecs of one tgroup.
MaxTables == 2

MaxEntries == 4

MaxTableRows == 2

MaxColspecs == 2

\* Optional[Table]: None is the empty sequence, a Table the sequence of it.
NoTable == <<>>

\* _Capture(): the fields the table handlers and write() use.
Capture == [lines |-> << <<>> >>, indent |-> 0, table |-> NoTable]

\* Mutant of capture: the new capture takes over the open table.
capture_Inherit(cs) == Append(cs, [Capture EXCEPT !.table = cs[Len(cs)].table])

\* self.capture(): section_depth, the one field it copies, plays no part here.
capture(cs) == Append(cs, Capture)

\* self.captures[-1], which self.lines, self.indent and self.table read and
\* write.
Top(cs) == cs[Len(cs)]

SetTop(cs, cap) == [cs EXCEPT ![Len(cs)] = cap]

\* text.split("\n") of the texts the handlers write.
DirectiveText == << <<".", ".", " ", "t", "a", "b", "l", "e", ":", ":">> >>

NewlineText == << <<>>, <<>> >>

BlankLineText == << <<>>, <<>>, <<>> >>

ParagraphText == << <<"a">> >>

\* "\n".join(rendered).split("\n"): the lines themselves, [""] for no line.
SplitJoined(rendered) == IF rendered = <<>> THEN << <<>> >> ELSE rendered

\* self.write(text) on the capture cap, text given as text.split("\n"): every
\* non-empty line that starts a line of the capture is indented.
write(cap, text) ==
    LET indent == Repeat(" ", cap.indent)
        last == cap.lines[Len(cap.lines)]
        indented == [n \in DOMAIN text |->
                        IF text[n] # <<>> /\ (n > 1 \/ last = <<>>)
                        THEN indent \o text[n] ELSE text[n]]
    IN  [cap EXCEPT !.lines = SubSeq(@, 1, Len(@) - 1)
                                  \o <<last \o indented[1]>> \o Tail(indented)]

\* A node of the document being walked: its kind, the kinds of its children
\* visited so far, and the attributes the handlers read.
Node(kind, cols, morecols, morerows) ==
    [node |-> kind, seen |-> <<>>, cols |-> cols,
     morecols |-> morecols, morerows |-> morerows]

\* The walk enters a node, and leaves the node it is in.
Entered(node) == [document EXCEPT !.path = Append(@, node)]

Departed ==
    LET path == document.path
        rest == SubSeq(path, 1, Len(path) - 1)
    IN  [document EXCEPT !.path =
            IF rest = <<>> THEN rest
            ELSE [rest EXCEPT ![Len(rest)].seen = Append(@, path[Len(path)].node)]]

\* A leaf whose depart handler is `pass` is visited and left in one step.
Passed(kind) ==
    [document EXCEPT !.path[Len(document.path)].seen = Append(@, kind)]

\* A handler is about to be called on a node of kind `kind`.
In(kind) ==
    /\ pc = "handlers"
    /\ err = ""
    /\ document.path # <<>>
    /\ document.path[Len(document.path)].node = kind

Here == document.path[Len(document.path)]

\* The document is well-formed: the cells of the rows visited so far lie
\* inside the grid of the tgroup, no two of them on the same position.
FitsGrid(t) ==
    \A p \in PlacedCells(t) :
        /\ PlacedFootprint(p) \subseteq (0 .. MaxTableRows - 1) \X (0 .. ColumnCount(t) - 1)
        /\ \A q \in PlacedCells(t) :
               p # q => PlacedFootprint(p) \cap PlacedFootprint(q) = {}

\* The locals of render() are as they are between two calls.
Returned ==
    /\ cells' = <<>>
    /\ top_row' = <<>>
    /\ stack' = <<>>
    /\ next_first' = 0
    /\ in_column_indexes' = <<>>
    /\ in_columns' = <<>>
    /\ header_row' = None
    /\ row_heights' = <<>>
    /\ column_widths' = <<>>
    /\ rowspans' = <<>>
    /\ colspans' = <<>>
    /\ row_heights_list' = <<>>
    /\ column_widths_list' = <<>>
    /\ next_span' = 0
    /\ tree' = NoTree
    /\ lines' = <<>>
    /\ rstack' = <<>>
    /\ idx' = Unbound
    /\ out' = <<>>

\* The frame of a handler that does not call render().
NoCall == UNCHANGED <<table, pc, err, walkVars, listVars, tree, renderVars>>

\* visit_table, for a table without title and classes, up to the walk of its
\* children: at the top of the document or as the content of an entry.
VisitTable ==
    /\ pc = "handlers"
    /\ err = ""
    /\ \/ document.path = <<>>
       \/ In("entry") /\ Here.seen = <<>>
    /\ document.tables < MaxTables
    /\ LET cap1 == write(Top(captures), DirectiveText)
           cap2 == [cap1 EXCEPT !.indent = @ + 3]
           \* write_attributes finds no attribute to write.
           cap3 == write(write(cap2, NewlineText), NewlineText)
       IN  captures' = SetTop(captures, cap3)
    /\ document' = [Entered(Node("table", 0, 0, 0)) EXCEPT !.tables = @ + 1]
    /\ NoCall

\* depart_table
DepartTable ==
    /\ In("table")
    /\ Here.seen # <<>>
    /\ captures' = SetTop(captures,
                          [write(Top(captures), BlankLineText) EXCEPT !.indent = @ - 3])
    /\ document' = Departed
    /\ NoCall

\* visit_tgroup, of a tgroup with `cols` colspec children.
VisitTgroup ==
    /\ In("table")
    /\ Here.seen = <<>>
    /\ \E cols \in 1 .. MaxColspecs :
          IF Top(captures).table # NoTable
          THEN Raise("AssertionError")
          ELSE /\ captures' = SetTop(captures,
                                     [Top(captures) EXCEPT !.table =
                                         <<Table(Repeat(SetMax(DeclaredWidths), cols), <<>>)>>])
               /\ document' = Entered(Node("tgroup", cols, 0, 0))
               /\ NoCall

\* visit_colspec and depart_colspec: pass.
Colspec ==
    /\ In("tgroup")
    /\ Len(Here.seen) < Here.cols
    /\ document' = Passed("colspec")
    /\ UNCHANGED captures
    /\ NoCall

\* visit_thead
VisitThead ==
    /\ In("tgroup")
    /\ Len(Here.seen) = Here.cols
    /\ IF Top(captures).table = NoTable
       THEN Raise("AssertionError")
       ELSE IF Top(captures).table[1].in_header
       THEN Raise("AssertionError")
       ELSE /\ captures' = SetTop(captures,
                                  write([Top(captures) EXCEPT !.table[1].in_header = TRUE],
                                        BlankLineText))
            /\ document' = Entered(Node("thead", 0, 0, 0))
            /\ NoCall

\* depart_thead
DepartThead ==
    /\ In("thead")
    /\ Here.seen # <<>>
    /\ IF Top(captures).table = NoTable
       THEN Raise("AssertionError")
       ELSE IF ~Top(captures).table[1].in_header
       THEN Raise("AssertionError")
       ELSE /\ captures' = SetTop(captures,
                                  [Top(captures) EXCEPT !.table[1].in_header = FALSE])
            /\ document' = Departed
            /\ NoCall

\* visit_tbody
VisitTbody ==
    /\ In("tgroup")
    /\ Len(Here.seen) >= Here.cols
    /\ \A n \in DOMAIN Here.seen : Here.seen[n] # "tbody"
    /\ captures' = IF Top(captures).lines[Len(Top(captures).lines)] # <<>>
                   THEN SetTop(captures, write(Top(captures), BlankLineText))
                   ELSE captures
    /\ document' = Entered(Node("tbody", 0, 0, 0))
    /\ NoCall

\* depart_tbody: pass.
DepartTbody ==
    /\ In("tbody")
    /\ Here.seen # <<>>
    /\ document' = Departed
    /\ UNCHANGED captures
    /\ NoCall

\* visit_row, in a thead or a tbody.
VisitRow ==
    /\ \/ In("thead")
       \/ In("tbody")
    /\ IF Top(captures).table = NoTable
       THEN Raise("AssertionError")
       ELSE /\ Len(Top(captures).table[1].rows) < MaxTableRows
            /\ captures' = SetTop(captures,
                                  [Top(captures) EXCEPT !.table[1].rows = Append(@, <<>>)])
            /\ document' = Entered(Node("row", 0, 0, 0))
            /\ NoCall

\* depart_row: pass.
DepartRow ==
    /\ In("row")
    /\ Here.seen # <<>>
    /\ document' = Departed
    /\ UNCHANGED captures
    /\ NoCall

\* The open table with one more cell of the given spans in its last row.
WithCell(t, cell) == [t EXCEPT !.rows[Len(t.rows)] = Append(@, cell)]

\* visit_entry, of an entry whose attributes fit the grid.
VisitEntry ==
    /\ In("row")
    /\ document.entries < MaxEntries
    /\ \E morecols, morerows \in 0 .. MaxSpan :
          /\ Top(captures).table # NoTable =>
                FitsGrid(WithCell(Top(captures).table[1],
                                  CellContent(<<>>, FALSE, morecols, morerows)))
          /\ captures' = capture(captures)
          /\ document' = [Entered(Node("entry", 0, morecols, morerows))
                              EXCEPT !.entries = @ + 1]
          /\ NoCall

\* depart_entry
DepartEntry ==
    /\ In("entry")
    /\ IF Len(captures) <= 1
       THEN Raise("AssertionError")
       ELSE LET captured == Top(captures)
                released == SubSeq(captures, 1, Len(captures) - 1)
            IN  IF Top(released).table = NoTable
                THEN Raise("AssertionError")
                ELSE IF Top(released).table[1].rows = <<>>
                THEN Raise("IndexError")
                ELSE /\ captures' =
                            SetTop(released,
                                   [Top(released) EXCEPT !.table[1] =
                                       WithCell(@, CellContent(captured.lines,
                                                               Top(released).table[1].in_header,
                                                               Here.morecols, Here.morerows))])
                     /\ document' = Departed
                     /\ NoCall

\* visit_paragraph: pass.  The paragraph is the content of an entry.
VisitParagraph ==
    /\ In("entry")
    /\ Here.seen = <<>>
    /\ document' = Entered(Node("paragraph", 0, 0, 0))
    /\ UNCHANGED captures
    /\ NoCall

\* visit_Text of the first Text of a paragraph; depart_Text: pass.
Text ==
    /\ In("paragraph")
    /\ Here.seen = <<>>
    /\ captures' = SetTop(captures, write(Top(captures), ParagraphText))
    /\ document' = Passed("Text")
    /\ NoCall

\* depart_paragraph
DepartParagraph ==
    /\ In("paragraph")
    /\ Here.seen # <<>>
    /\ captures' = SetTop(captures, write(Top(captures), BlankLineText))
    /\ document' = Departed
    /\ NoCall

\* depart_tgroup up to its call self.table.render(), of a tgroup whose rows
\* tile its grid.
DepartTgroup ==
    /\ In("tgroup")
    /\ \E n \in DOMAIN Here.seen : Here.seen[n] = "tbody"
    /\ IF Top(captures).table = NoTable
       THEN Raise("AssertionError")
       ELSE /\ Valid(Top(captures).table[1])
            /\ table' = Top(captures).table[1]
            /\ pc' = "start"
            /\ UNCHANGED <<writerVars, err, walkVars, listVars, tree, renderVars>>

\* depart_tgroup from the return of render() on.
DepartTgroupReturn ==
    /\ pc = "done"
    /\ err = ""
    /\ captures # <<>>
    /\ captures' = SetTop(captures,
                          write([Top(captures) EXCEPT !.table = NoTable], SplitJoined(out)))
    /\ document' = Departed
    /\ table' = Table(<<>>, <<>>)
    /\ pc' = "handlers"
    /\ Returned
    /\ UNCHANGED err

\* RstTranslator.__init__, before the walk of the document starts.
InitWriter ==
    /\ captures = <<Capture>>
    /\ document = [path |-> <<>>, tables |-> 0, entries |-> 0]
    /\ table = Table(<<>>, <<>>)
    /\ pc = "handlers"
    /\ err = ""
    /\ cells = <<>>
    /\ top_row = <<>>
    /\ stack = <<>>
    /\ next_first = 0
    /\ in_column_indexes = <<>>
    /\ in_columns = <<>>
    /\ header_row = None
    /\ row_heights = <<>>
    /\ column_widths = <<>>
    /\ rowspans = <<>>
    /\ colspans = <<>>
    /\ row_heights_list = <<>>
    /\ column_widths_list = <<>>
    /\ next_span = 0
    /\ tree = NoTree
    /\ lines = <<>>
    /\ rstack = <<>>
    /\ idx = Unbound
    /\ out = <<>>

NextWriter ==
    \/ VisitTable
    \/ DepartTable
    \/ VisitTgroup
    \/ Colspec
    \/ VisitThead
    \/ DepartThead
    \/ VisitTbody
    \/ DepartTbody
    \/ VisitRow
    \/ DepartRow
    \/ VisitEntry
    \/ DepartEntry
    \/ VisitParagraph
    \/ Text
    \/ DepartParagraph
    \/ DepartTgroup
    \/ DepartTgroupReturn
    \/ Next

SpecWriter == InitWriter /\ [][NextWriter]_vars

\* ----------------------------------------------- vocabulary of C29 and C30
\* The step is visit_entry, depart_entry, visit_tgroup, or the call of
\* render() in depart_tgroup.
EntryVisited == captures # <<>> /\ Len(captures') = Len(captures) + 1

EntryDeparted == Len(captures) >= 2 /\ Len(captures') = Len(captures) - 1

TgroupVisited ==
    /\ Len(document'.path) = Len(document.path) + 1
    /\ document'.path[Len(document'.path)].node = "tgroup"

TgroupDeparting == pc = "handlers" /\ pc' = "start"

\* The capture below the top one, which depart_entry appends the cell to.
Enclosing == captures[Len(captures) - 1]

\* The cell depart_entry appended.
AppendedCell ==
    LET rows == Top(captures').table[1].rows
    IN  rows[Len(rows)][Len(rows[Len(rows)])]

\* The Tables open in the captures.
OpenTables == {captures[i].table[1] : i \in {k \in DOMAIN captures : captures[k].table # NoTable}}

\* C29, the state: the base capture is never popped and no assertion has
\* failed, that of visit_tgroup and that of release included.
C29_State ==
    /\ captures # <<>>
    /\ err # "AssertionError"

\* C29, the step: a handler writes to the top capture only; visit_entry
\* pushes a capture without a table; depart_entry makes the enclosing Table
\* the current one again, with its column_widths, in_header and rows as they
\* were when the entry was visited but for the one cell appended to its last
\* row.
C29_Step ==
    /\ \A i \in DOMAIN captures :
          (i < Len(captures) /\ i < Len(captures')) => captures'[i] = captures[i]
    /\ EntryVisited =>
          /\ Top(captures').table = NoTable
          /\ captures'[Len(captures)] = captures[Len(captures)]
    /\ EntryDeparted =>
          /\ Enclosing.table # NoTable
          /\ Top(captures').table # NoTable
          /\ Top(captures').lines = Enclosing.lines
          /\ Top(captures').indent = Enclosing.indent
          /\ LET before == Enclosing.table[1]
                 after == Top(captures').table[1]
                 last == Len(before.rows)
             IN  /\ after.column_widths = before.column_widths
                 /\ after.in_header = before.in_header
                 /\ Len(after.rows) = last
                 /\ \A r \in 1 .. last - 1 : after.rows[r] = before.rows[r]
                 /\ Len(after.rows[last]) = Len(before.rows[last]) + 1
                 /\ SubSeq(after.rows[last], 1, Len(before.rows[last])) = before.rows[last]

\* C29: a table nested inside an entry does not disturb the enclosing
\* table: visit_entry pushes a fresh capture whose table slot is None, so
\* visit_tgroup's assertion holds for the nested table; the rows of the
\* nested table are never appended to the enclosing Table; release never
\* pops the base capture; after depart_entry the enclosing Table is the
\* current one again, unchanged except for the one appended cell.
C29_NestedTable == [](C29_State) /\ [][C29_Step]_vars

\* The entry that held a nested table has been departed: the enclosing
\* Table is current and its last cell holds the lines of the nested table.
C29_Witness ==
    /\ pc = "handlers"
    /\ err = ""
    /\ Len(captures) = 1
    /\ document.tables = 2
    /\ Top(captures).table # NoTable
    /\ \E r \in DOMAIN Top(captures).table[1].rows :
          \E k \in DOMAIN Top(captures).table[1].rows[r] :
              \E n \in DOMAIN Top(captures).table[1].rows[r][k].lines :
                  "+" \in Range(Top(captures).table[1].rows[r][k].lines[n])

\* C30, the state: no assertion has failed, that of visit_thead included,
\* and every CellContent of an open Table has at least one line.
C30_State ==
    /\ err # "AssertionError"
    /\ \A t \in OpenTables :
          \A r \in DOMAIN t.rows : \A k \in DOMAIN t.rows[r] :
              Len(t.rows[r][k].lines) >= 1

\* C30, the step: the cell depart_entry appends has header = TRUE exactly
\* when its entry is in a row of the thead of its table; in_header is FALSE
\* when visit_tgroup has run and when depart_tgroup runs.
C30_Step ==
    /\ EntryDeparted =>
          /\ AppendedCell.header
                <=> document.path[Len(document.path) - 2].node = "thead"
          /\ Len(AppendedCell.lines) >= 1
    /\ TgroupVisited => ~Top(captures').table[1].in_header
    /\ TgroupDeparting => ~Top(captures).table[1].in_header

\* C30: for the events of a well-formed table, a CellContent appended by
\* depart_entry has header = TRUE exactly when its entry lies between
\* visit_thead and depart_thead of its own table; in_header is FALSE at
\* visit_tgroup and at depart_tgroup; visit_thead is never entered while
\* in_header is TRUE; every CellContent built has at least one line.
C30_HeaderFlag == [](C30_State) /\ [][C30_Step]_vars

\* A table with a thead and a tbody is about to be rendered: it holds a
\* header cell and a body cell, one of them of an entry without content.
C30_Witness ==
    /\ pc = "start"
    /\ captures # <<>>
    /\ \E r, q \in DOMAIN table.rows :
          /\ \E k \in DOMAIN table.rows[r] : table.rows[r][k].header
          /\ \E k \in DOMAIN table.rows[q] :
                 /\ ~table.rows[q][k].header
                 /\ table.rows[q][k].lines = << <<>> >>

====
